---- MODULE Spec2Model ----
(***************************************************************************)
(* A model of the bulk-buffer kernels of the library:                      *)
(*   invert_colors   (src/src/images.rs)                                   *)
(*   calculate_mean  (src/src/math.rs)                                     *)
(*   xor_bytes, count_zero_bits (src/src/byte.rs)                          *)
(* and of its two sorts, quick_sort and merge_sort (src/src/array.rs).      *)
(* One call is one behaviour: Init picks the function and its arguments,   *)
(* every loop iteration of the function is one step.                       *)
(***************************************************************************)
EXTENDS Integers, Sequences, FiniteSets, TLC

VARIABLES
    op,        \* the function being called
    pc,        \* position in that function
    calls,     \* number of calls of the function that have returned
    in0,       \* the first argument as the caller passed it to the first call
    bytes,     \* invert_colors: the buffer `bytes`
    data,      \* calculate_mean: the slice `data`
    len,       \* invert_colors / calculate_mean: `len`
    i,         \* main loop index `i` (xor_bytes, count_zero_bits: iterator position)
    j,         \* remainder loop index `j`
    sum,       \* calculate_mean: `sum`
    meanRet,   \* calculate_mean: the returned value
    divided,   \* calculate_mean: the division at the end has been executed
    data1,     \* xor_bytes: `data1`
    data2,     \* xor_bytes: `data2`
    out,       \* xor_bytes: the collected Vec<u8>
    runs,      \* count_zero_bits: `data`, as runs of equal bytes
    acc,       \* count_zero_bits: the u32 accumulator of sum()
    ovf,       \* count_zero_bits: an addition of sum() has overflowed u32
    mainHits,  \* per index: number of main-loop iterations that processed it
    remHits,   \* per index: number of remainder iterations that processed it
    lastAcc    \* the memory access of the last step: offset, width, region

vars == <<op, pc, calls, in0, bytes, data, len, i, j, sum, meanRet, divided,
          data1, data2, out, runs, acc, ovf, mainHits, remHits, lastAcc>>

----------------------------------------------------------------------------
(* Program constants *)

\* lanes of a v128 holding u8 values: `while i + 16 <= len`, `i += 16`
LANES_U8 == 16
\* lanes of a v128 holding f64 values: `while i + 2 <= len`, `i += 2`
LANES_F64 == 2
\* u8x16_splat(255), `255 - x`
U8_MAX == 255
\* bits of a u8, the operand of count_zeros
U8_BITS == 8
\* bits of the u32 that count_zero_bits returns
U32_BITS == 32

(* Bounds of the model *)

\* invert_colors: buffers of length 0..MaxInvLen
MaxInvLen == 64
\* calculate_mean: slices of length 0..MaxMeanLen
MaxMeanLen == 5
\* xor_bytes: data1 of length 0..MaxXorLen1, data2 of length 0..MaxXorLen2
MaxXorLen1 == 3
MaxXorLen2 == 5
\* count_zero_bits: data made of 0..MaxRuns runs of equal bytes
MaxRuns == 3
\* bits of precision of the floating-point format that stands for f64
MantBits == 4

----------------------------------------------------------------------------
(* Arithmetic helpers *)

RECURSIVE Pow2(_)
Pow2(n) == IF n = 0 THEN 1 ELSE 2 * Pow2(n - 1)

Abs(x) == IF x < 0 THEN -x ELSE x

Min(a, b) == IF a <= b THEN a ELSE b

U8_MOD == U8_MAX + 1

\* wrapping subtraction of one u8 lane, as u8x16_sub computes it
WrapSubU8(a, b) == (a - b + U8_MOD) % U8_MOD

\* x1 ^ x2 on u8, bit by bit
RECURSIVE BitXor(_, _)
BitXor(a, b) ==
    IF a = 0 /\ b = 0 THEN 0
    ELSE (((a % 2) + (b % 2)) % 2) + 2 * BitXor(a \div 2, b \div 2)

\* u8::count_ones
RECURSIVE CountOnes(_)
CountOnes(b) == IF b = 0 THEN 0 ELSE (b % 2) + CountOnes(b \div 2)

\* u8::count_zeros
CountZeros(b) == U8_BITS - CountOnes(b)

----------------------------------------------------------------------------
(* Floating point.  f64 is a binary format with round-to-nearest, ties to  *)
(* even.  The model keeps the rounding rule and shortens the significand   *)
(* to MantBits bits; a value is an integer number of quanta (the spacing   *)
(* of the smallest values of the format), 8 quanta making 1.0.  Inputs     *)
(* stay far below the largest finite value, so no sum becomes infinite.    *)

\* the spacing of the format's values around the magnitude num/den
RECURSIVE UlpQ(_, _)
UlpQ(num, den) == IF num < Pow2(MantBits) * den THEN 1 ELSE 2 * UlpQ(num, 2 * den)

\* round the magnitude num/den to the format: nearest, ties to even
RoundQ(num, den) ==
    LET q   == UlpQ(num, den)
        m   == num \div (den * q)
        r   == num - m * den * q
    IN  IF 2 * r < den * q THEN m * q
        ELSE IF 2 * r > den * q THEN (m + 1) * q
        ELSE IF m % 2 = 0 THEN m * q ELSE (m + 1) * q

Round(x) == IF x < 0 THEN -RoundQ(-x, 1) ELSE RoundQ(x, 1)

\* f64 + f64
FAdd(x, y) == Round(x + y)

\* f64 / (n as f64), n a positive integer
FDiv(x, n) == IF x < 0 THEN -RoundQ(-x, n) ELSE RoundQ(x, n)

----------------------------------------------------------------------------
(* Inputs *)

\* byte buffers of invert_colors: bytes[k] = base + k * step (mod 256)
InvBases == {0, 100, 255}
InvSteps == {0, 1, 37}
Pattern(base, step, n) == [k \in 1..n |-> (base + (k - 1) * step) % U8_MOD]

\* f64 values of calculate_mean, in quanta: -2.0, 1.0, 2.0, 3.0, 4.0, 8.0
FloatVals == {-16, 8, 16, 24, 32, 64}

\* byte values of xor_bytes
XorBytes == {213, 99, 255}
XorSteps == {0, 85}

RECURSIVE SeqsUpTo(_, _)
SeqsUpTo(S, n) ==
    IF n = 0 THEN {<<>>}
    ELSE LET shorter == SeqsUpTo(S, n - 1)
         IN  shorter \cup {Append(s, x) : s \in {t \in shorter : Len(t) = n - 1}, x \in S}

HitDom == 0..(MaxInvLen + LANES_U8)
NoHits == [k \in HitDom |-> 0]
NoAccess == [off |-> 0, w |-> 0, region |-> "none"]

----------------------------------------------------------------------------
(* u32 arithmetic.  A natural number is kept as two 16-bit limbs,          *)
(* hi * 2^16 + lo, so that sums beyond 2^32 can be written down; a u32 is  *)
(* such a number with hi < 2^16.                                           *)

LIMB == Pow2(U32_BITS \div 2)

Wide(h, l) == [hi |-> h, lo |-> l]
WideZero == Wide(0, 0)

\* w + z * n for z <= 8 and n < 2^31
WideAddMul(w, z, n) ==
    LET low == w.lo + z * (n % LIMB)
    IN  Wide(w.hi + z * (n \div LIMB) + (low \div LIMB), low % LIMB)

WideAdd(a, b) ==
    LET low == a.lo + b.lo
    IN  Wide(a.hi + b.hi + (low \div LIMB), low % LIMB)

FitsU32(w) == w.hi < LIMB
WrapU32(w) == Wide(w.hi % LIMB, w.lo)

\* count_zero_bits: byte values, and the lengths of the runs of equal bytes
CzbBytes == {0, 204, 170, 240, 255}
RunLens == {1, Pow2(28), Pow2(29)}
RunSet == [byte : CzbBytes, n : RunLens]

RECURSIVE WideLen(_)
WideLen(rs) ==
    IF rs = <<>> THEN WideZero
    ELSE WideAddMul(WideLen(Tail(rs)), 1, Head(rs).n)

\* a slice holds at most isize::MAX = 2^31 - 1 bytes
ValidSlice(rs) == WideLen(rs).hi < LIMB \div 2

----------------------------------------------------------------------------
(* invert_colors, src/src/images.rs *)

\* `while i + 16 <= len`
InvertMainCondOffByLane(ii, n) == ii < n
InvertMainCondStrict(ii, n) == ii + LANES_U8 < n
InvertMainCond(ii, n) == ii + LANES_U8 <= n

\* u8x16_sub(u8x16_splat(255), vec), one lane
InvertLaneSwapped(v) == WrapSubU8(v, U8_MAX)
InvertLane(v) == WrapSubU8(U8_MAX, v)

\* `255 - *bytes.get_unchecked(j)`
InvertScalarNeg(v) == WrapSubU8(0, v)
InvertScalar(v) == U8_MAX - v

\* `for j in i..len`: the first j
RemStartZero(ii) == 0
RemStart(ii) == ii

InitInvert ==
    \E n \in 0..MaxInvLen, base \in InvBases, step \in InvSteps :
        /\ op = "invert" /\ pc = "main" /\ calls = 0
        /\ bytes = Pattern(base, step, n) /\ in0 = Pattern(base, step, n)
        /\ len = n /\ i = 0 /\ j = 0
        /\ data = <<>> /\ sum = 0 /\ meanRet = 0 /\ divided = FALSE
        /\ data1 = <<>> /\ data2 = <<>> /\ out = <<>>
        /\ runs = <<>> /\ acc = WideZero /\ ovf = FALSE
        /\ mainHits = NoHits /\ remHits = NoHits /\ lastAcc = NoAccess

Hit(h, from, w) == [k \in HitDom |-> IF k >= from /\ k < from + w THEN h[k] + 1 ELSE h[k]]

\* one iteration of the SIMD loop: v128_load, u8x16_sub, v128_store, i += 16.
\* Lanes beyond the buffer are outside `bytes`: the access is recorded in
\* lastAcc and mainHits, the buffer itself holds indices below len only.
InvertMain ==
    /\ op = "invert" /\ pc = "main" /\ InvertMainCond(i, len)
    /\ bytes' = [k \in 1..Len(bytes) |->
                    IF k - 1 >= i /\ k - 1 < i + LANES_U8
                    THEN InvertLane(bytes[k]) ELSE bytes[k]]
    /\ mainHits' = Hit(mainHits, i, LANES_U8)
    /\ lastAcc' = [off |-> i, w |-> LANES_U8, region |-> "main"]
    /\ i' = i + LANES_U8
    /\ UNCHANGED <<op, pc, calls, in0, data, len, j, sum, meanRet, divided,
                   data1, data2, out, runs, acc, ovf, remHits>>

\* the SIMD loop's condition fails: the remainder loop starts at j = i
InvertMainExit ==
    /\ op = "invert" /\ pc = "main" /\ ~InvertMainCond(i, len)
    /\ pc' = "rem" /\ j' = RemStart(i)
    /\ UNCHANGED <<op, calls, in0, bytes, data, len, i, sum, meanRet, divided,
                   data1, data2, out, runs, acc, ovf, mainHits, remHits, lastAcc>>

\* one iteration of `for j in i..len`
InvertRem ==
    /\ op = "invert" /\ pc = "rem" /\ j < len
    /\ bytes' = [k \in 1..Len(bytes) |->
                    IF k - 1 = j THEN InvertScalar(bytes[k]) ELSE bytes[k]]
    /\ remHits' = Hit(remHits, j, 1)
    /\ lastAcc' = [off |-> j, w |-> 1, region |-> "rem"]
    /\ j' = j + 1
    /\ UNCHANGED <<op, pc, calls, in0, data, len, i, sum, meanRet, divided,
                   data1, data2, out, runs, acc, ovf, mainHits>>

\* the range i..len is exhausted: invert_colors returns
InvertReturn ==
    /\ op = "invert" /\ pc = "rem" /\ j >= len
    /\ pc' = "done" /\ calls' = calls + 1
    /\ UNCHANGED <<op, in0, bytes, data, len, i, j, sum, meanRet, divided,
                   data1, data2, out, runs, acc, ovf, mainHits, remHits, lastAcc>>

\* the caller passes the inverted buffer to invert_colors a second time
InvertAgain ==
    /\ op = "invert" /\ pc = "done" /\ calls = 1
    /\ pc' = "main" /\ len' = Len(bytes) /\ i' = 0 /\ j' = 0
    /\ mainHits' = NoHits /\ remHits' = NoHits /\ lastAcc' = NoAccess
    /\ UNCHANGED <<op, calls, in0, bytes, data, sum, meanRet, divided,
                   data1, data2, out, runs, acc, ovf>>

----------------------------------------------------------------------------
(* calculate_mean, src/src/math.rs *)

\* `while i + 2 <= len`
MeanMainCond(ii, n) == ii + LANES_F64 <= n

\* the values an f64 load at index k can yield: the element, or, outside the
\* slice, whatever the adjacent memory holds
LoadF64(k) == IF k < Len(data) THEN {data[k + 1]} ELSE FloatVals

\* `partial_sum = lane0 + lane1; sum += partial_sum`
AccumulateLaneByLane(s, v0, v1) == FAdd(FAdd(s, v0), v1)
Accumulate(s, v0, v1) == FAdd(s, FAdd(v0, v1))

\* `for j in i..len`: the first j
MeanRemStartSkip(ii) == ii + 1
MeanRemStart(ii) == ii

InitMean ==
    \E d \in SeqsUpTo(FloatVals, MaxMeanLen) :
        /\ op = "mean" /\ pc = "entry" /\ calls = 0
        /\ data = d /\ in0 = d /\ len = Len(d)
        /\ i = 0 /\ j = 0 /\ sum = 0 /\ meanRet = 0 /\ divided = FALSE
        /\ bytes = <<>> /\ data1 = <<>> /\ data2 = <<>> /\ out = <<>>
        /\ runs = <<>> /\ acc = WideZero /\ ovf = FALSE
        /\ mainHits = NoHits /\ remHits = NoHits /\ lastAcc = NoAccess

\* `if len == 0 { return 0.0; }`
MeanEmpty ==
    /\ op = "mean" /\ pc = "entry" /\ len = 0
    /\ meanRet' = 0 /\ pc' = "done" /\ calls' = calls + 1
    /\ UNCHANGED <<op, in0, bytes, data, len, i, j, sum, divided,
                   data1, data2, out, runs, acc, ovf, mainHits, remHits, lastAcc>>

\* `let mut sum = 0.0; let mut i = 0;`
MeanEnter ==
    /\ op = "mean" /\ pc = "entry" /\ len # 0
    /\ sum' = 0 /\ i' = 0 /\ pc' = "main"
    /\ UNCHANGED <<op, calls, in0, bytes, data, len, j, meanRet, divided,
                   data1, data2, out, runs, acc, ovf, mainHits, remHits, lastAcc>>

\* one iteration of the SIMD loop: v128_load of two f64, both lanes added
\* to each other and then to sum, i += 2
MeanMain ==
    /\ op = "mean" /\ pc = "main" /\ MeanMainCond(i, len)
    /\ \E v0 \in LoadF64(i), v1 \in LoadF64(i + 1) : sum' = Accumulate(sum, v0, v1)
    /\ mainHits' = Hit(mainHits, i, LANES_F64)
    /\ lastAcc' = [off |-> i, w |-> LANES_F64, region |-> "main"]
    /\ i' = i + LANES_F64
    /\ UNCHANGED <<op, pc, calls, in0, bytes, data, len, j, meanRet, divided,
                   data1, data2, out, runs, acc, ovf, remHits>>

MeanMainExit ==
    /\ op = "mean" /\ pc = "main" /\ ~MeanMainCond(i, len)
    /\ pc' = "rem" /\ j' = MeanRemStart(i)
    /\ UNCHANGED <<op, calls, in0, bytes, data, len, i, sum, meanRet, divided,
                   data1, data2, out, runs, acc, ovf, mainHits, remHits, lastAcc>>

\* one iteration of `for j in i..len { sum += data[j]; }`
MeanRem ==
    /\ op = "mean" /\ pc = "rem" /\ j < len
    /\ \E v \in LoadF64(j) : sum' = FAdd(sum, v)
    /\ remHits' = Hit(remHits, j, 1)
    /\ lastAcc' = [off |-> j, w |-> 1, region |-> "rem"]
    /\ j' = j + 1
    /\ UNCHANGED <<op, pc, calls, in0, bytes, data, len, i, meanRet, divided,
                   data1, data2, out, runs, acc, ovf, mainHits>>

\* `sum / len as f64`
MeanDiv ==
    /\ op = "mean" /\ pc = "rem" /\ j >= len
    /\ meanRet' = FDiv(sum, len) /\ divided' = TRUE
    /\ pc' = "done" /\ calls' = calls + 1
    /\ UNCHANGED <<op, in0, bytes, data, len, i, j, sum,
                   data1, data2, out, runs, acc, ovf, mainHits, remHits, lastAcc>>

----------------------------------------------------------------------------
(* xor_bytes, src/src/byte.rs *)

\* zip's next(): Some only while both iterators have an element
ZipHasNextShort(ii, a, b) == ii + 1 < Len(a) /\ ii + 1 < Len(b)
ZipHasNext(ii, a, b) == ii < Len(a) /\ ii < Len(b)

\* `x1 ^ x2`
RECURSIVE BitOr(_, _)
BitOr(a, b) ==
    IF a = 0 /\ b = 0 THEN 0
    ELSE (IF (a % 2) + (b % 2) > 0 THEN 1 ELSE 0) + 2 * BitOr(a \div 2, b \div 2)
XorByteAsOr(x1, x2) == BitOr(x1, x2)
XorByte(x1, x2) == BitXor(x1, x2)

InitXor ==
    \E a \in SeqsUpTo(XorBytes, MaxXorLen1),
       n \in 0..MaxXorLen2, base \in XorBytes, step \in XorSteps :
        /\ op = "xor" /\ pc = "zip" /\ calls = 0
        /\ data1 = a /\ in0 = a /\ data2 = Pattern(base, step, n)
        /\ out = <<>> /\ i = 0 /\ j = 0 /\ len = 0
        /\ bytes = <<>> /\ data = <<>> /\ sum = 0 /\ meanRet = 0 /\ divided = FALSE
        /\ runs = <<>> /\ acc = WideZero /\ ovf = FALSE
        /\ mainHits = NoHits /\ remHits = NoHits /\ lastAcc = NoAccess

\* one item of data1.iter().zip(data2.iter()).map(|(&x1, &x2)| x1 ^ x2)
XorNext ==
    /\ op = "xor" /\ pc = "zip" /\ ZipHasNext(i, data1, data2)
    /\ out' = Append(out, XorByte(data1[i + 1], data2[i + 1]))
    /\ i' = i + 1
    /\ UNCHANGED <<op, pc, calls, in0, bytes, data, len, j, sum, meanRet, divided,
                   data1, data2, runs, acc, ovf, mainHits, remHits, lastAcc>>

\* zip is exhausted: collect() returns the Vec
XorCollect ==
    /\ op = "xor" /\ pc = "zip" /\ ~ZipHasNext(i, data1, data2)
    /\ pc' = "done" /\ calls' = calls + 1
    /\ UNCHANGED <<op, in0, bytes, data, len, i, j, sum, meanRet, divided,
                   data1, data2, out, runs, acc, ovf, mainHits, remHits, lastAcc>>

\* the caller passes the result and data2 to xor_bytes again
XorAgain ==
    /\ op = "xor" /\ pc = "done" /\ calls = 1
    /\ data1' = out /\ out' = <<>> /\ i' = 0 /\ pc' = "zip"
    /\ UNCHANGED <<op, calls, in0, bytes, data, len, j, sum, meanRet, divided,
                   data2, runs, acc, ovf, mainHits, remHits, lastAcc>>

----------------------------------------------------------------------------
(* count_zero_bits, src/src/byte.rs.  The slice is given as runs of equal   *)
(* bytes.  sum() adds count_zeros of one byte after the other to a u32; a   *)
(* step below is the n additions of one run.  Every addend is >= 0, so      *)
(* the n additions overflow exactly when acc + n * count_zeros(byte) does   *)
(* not fit a u32.  On overflow the build decides: with overflow checks the  *)
(* addition panics, without them it wraps modulo 2^32.                      *)

InitCzb ==
    \E rs \in SeqsUpTo(RunSet, MaxRuns) :
        /\ ValidSlice(rs)
        /\ op = "czb" /\ pc = "fold" /\ calls = 0
        /\ runs = rs /\ acc = WideZero /\ ovf = FALSE /\ i = 0
        /\ in0 = <<>> /\ bytes = <<>> /\ data = <<>> /\ len = 0 /\ j = 0
        /\ sum = 0 /\ meanRet = 0 /\ divided = FALSE
        /\ data1 = <<>> /\ data2 = <<>> /\ out = <<>>
        /\ mainHits = NoHits /\ remHits = NoHits /\ lastAcc = NoAccess

\* acc after the additions of run r, before any reduction to 32 bits
Folded(a, r) == WideAddMul(a, CountZeros(r.byte), r.n)

CzbNext ==
    /\ op = "czb" /\ pc = "fold" /\ i < Len(runs)
    /\ FitsU32(Folded(acc, runs[i + 1]))
    /\ acc' = Folded(acc, runs[i + 1]) /\ i' = i + 1
    /\ UNCHANGED <<op, pc, calls, in0, bytes, data, len, j, sum, meanRet, divided,
                   data1, data2, out, runs, ovf, mainHits, remHits, lastAcc>>

CzbOverflowWrap ==
    /\ op = "czb" /\ pc = "fold" /\ i < Len(runs)
    /\ ~FitsU32(Folded(acc, runs[i + 1]))
    /\ acc' = WrapU32(Folded(acc, runs[i + 1])) /\ ovf' = TRUE /\ i' = i + 1
    /\ UNCHANGED <<op, pc, calls, in0, bytes, data, len, j, sum, meanRet, divided,
                   data1, data2, out, runs, mainHits, remHits, lastAcc>>

CzbOverflowPanic ==
    /\ op = "czb" /\ pc = "fold" /\ i < Len(runs)
    /\ ~FitsU32(Folded(acc, runs[i + 1]))
    /\ pc' = "panic" /\ ovf' = TRUE
    /\ UNCHANGED <<op, calls, in0, bytes, data, len, i, j, sum, meanRet, divided,
                   data1, data2, out, runs, acc, mainHits, remHits, lastAcc>>

CzbReturn ==
    /\ op = "czb" /\ pc = "fold" /\ i >= Len(runs)
    /\ pc' = "done" /\ calls' = calls + 1
    /\ UNCHANGED <<op, in0, bytes, data, len, i, j, sum, meanRet, divided,
                   data1, data2, out, runs, acc, ovf, mainHits, remHits, lastAcc>>

----------------------------------------------------------------------------

Init == InitInvert \/ InitMean \/ InitXor \/ InitCzb

Next ==
    \/ InvertMain \/ InvertMainExit \/ InvertRem \/ InvertReturn \/ InvertAgain
    \/ MeanEmpty \/ MeanEnter \/ MeanMain \/ MeanMainExit \/ MeanRem \/ MeanDiv
    \/ XorNext \/ XorCollect \/ XorAgain
    \/ CzbNext \/ CzbOverflowWrap \/ CzbOverflowPanic \/ CzbReturn

Spec == Init /\ [][Next]_vars

----------------------------------------------------------------------------
(* quick_sort and merge_sort, src/src/array.rs.  Both are pure functions   *)
(* of their argument: they are operators, applied by one step of a call.   *)
(* A Vec<i32> is a sequence; the code's index k is position k + 1.         *)

\* vectors of length 0..MaxSortLen
MaxSortLen == 5
\* i32 values of the vectors
SortVals == {-2, 0, 1, 3}

\* `if x < pivot { left.push(x) } else { right.push(x) }`
QsGoesLeftReversed(x, pivot) == x > pivot
QsGoesLeft(x, pivot) == x < pivot

QsLeft(rest, pivot) == SelectSeq(rest, LAMBDA x : QsGoesLeft(x, pivot))
QsRight(rest, pivot) == SelectSeq(rest, LAMBDA x : ~QsGoesLeft(x, pivot))

\* quick_sort: pop the last element as pivot, partition the rest, sort both
\* parts, return sorted_left ++ [pivot] ++ sorted_right
RECURSIVE quick_sort(_)
quick_sort(arr) ==
    IF Len(arr) <= 1 THEN arr
    ELSE LET pivot == arr[Len(arr)]
             rest  == SubSeq(arr, 1, Len(arr) - 1)
         IN  quick_sort(QsLeft(rest, pivot)) \o <<pivot>> \o quick_sort(QsRight(rest, pivot))

\* the number of calls of quick_sort that quick_sort(arr) makes, itself included
RECURSIVE quick_sort_calls(_)
quick_sort_calls(arr) ==
    IF Len(arr) <= 1 THEN 1
    ELSE LET pivot == arr[Len(arr)]
             rest  == SubSeq(arr, 1, Len(arr) - 1)
         IN  1 + quick_sort_calls(QsLeft(rest, pivot)) + quick_sort_calls(QsRight(rest, pivot))

\* merge: the while loop, then the copy of the rest of the left half;
\* nothing is written for the rest of the right half.  The result is arr.
RECURSIVE merge_loop(_, _, _, _, _, _, _)
merge_loop(arr, aux, left, right, idx, mid, end) ==
    IF left < mid /\ right < end
    THEN IF aux[left + 1] <= aux[right + 1]
         THEN merge_loop([arr EXCEPT ![idx + 1] = aux[left + 1]], aux,
                         left + 1, right, idx + 1, mid, end)
         ELSE merge_loop([arr EXCEPT ![idx + 1] = aux[right + 1]], aux,
                         left, right + 1, idx + 1, mid, end)
    ELSE IF left < mid
         THEN [k \in 1..Len(arr) |->
                  IF k - 1 >= idx /\ k - 1 < end THEN aux[left + (k - 1 - idx) + 1]
                  ELSE arr[k]]
         ELSE arr

merge(arr, aux, start, mid, end) == merge_loop(arr, aux, start, mid, start, mid, end)

\* merge_sort_recursive(arr, aux, start, end): both slices as the call
\* leaves them, <<arr, aux>>.  The recursive calls take the slices in
\* exchanged roles.
RECURSIVE merge_sort_recursive(_, _, _, _)
merge_sort_recursive(arr, aux, start, end) ==
    IF end - start <= 1 THEN <<arr, aux>>
    ELSE LET mid    == (start + end) \div 2
             first  == merge_sort_recursive(aux, arr, start, mid)
             second == merge_sort_recursive(first[1], first[2], mid, end)
         IN  <<merge(second[2], second[1], start, mid, end), second[1]>>

\* merge_sort: `let mut aux = arr.clone(); merge_sort_recursive(..., 0, len); arr`
merge_sort(arr) ==
    IF Len(arr) <= 1 THEN arr
    ELSE merge_sort_recursive(arr, arr, 0, Len(arr))[1]

\* a call of quick_sort or merge_sort: in0 is the argument, out the result
InitSort ==
    \E v \in SeqsUpTo(SortVals, MaxSortLen), f \in {"quick_sort", "merge_sort"} :
        /\ op = f /\ pc = "call" /\ calls = 0
        /\ in0 = v /\ out = <<>>
        /\ bytes = <<>> /\ data = <<>> /\ len = 0 /\ i = 0 /\ j = 0
        /\ sum = 0 /\ meanRet = 0 /\ divided = FALSE
        /\ data1 = <<>> /\ data2 = <<>>
        /\ runs = <<>> /\ acc = WideZero /\ ovf = FALSE
        /\ mainHits = NoHits /\ remHits = NoHits /\ lastAcc = NoAccess

QuickSortCall ==
    /\ op = "quick_sort" /\ pc = "call"
    /\ out' = quick_sort(in0) /\ pc' = "done" /\ calls' = calls + 1
    /\ UNCHANGED <<op, in0, bytes, data, len, i, j, sum, meanRet, divided,
                   data1, data2, runs, acc, ovf, mainHits, remHits, lastAcc>>

MergeSortCall ==
    /\ op = "merge_sort" /\ pc = "call"
    /\ out' = merge_sort(in0) /\ pc' = "done" /\ calls' = calls + 1
    /\ UNCHANGED <<op, in0, bytes, data, len, i, j, sum, meanRet, divided,
                   data1, data2, runs, acc, ovf, mainHits, remHits, lastAcc>>

NextSort == QuickSortCall \/ MergeSortCall

SpecSort == InitSort /\ [][NextSort]_vars

----------------------------------------------------------------------------
(* Operators the properties are stated with *)

InKernel == op \in {"invert", "mean"}

\* bit p of byte x
Bit(x, p) == (x \div Pow2(p)) % 2

RECURSIVE SumAll(_)
SumAll(d) == IF d = <<>> THEN 0 ELSE Head(d) + SumAll(Tail(d))

RECURSIVE SumAbs(_)
SumAbs(d) == IF d = <<>> THEN 0 ELSE Abs(Head(d)) + SumAbs(Tail(d))

\* every sum of elements of d, in any order, is a value of the format: the
\* elements are multiples of one power of two g and their magnitudes add up
\* to less than 2^MantBits * g
ExactInput(d) ==
    \E e \in 0..6 :
        /\ \A k \in 1..Len(d) : d[k] % Pow2(e) = 0
        /\ SumAbs(d) < Pow2(MantBits) * Pow2(e)

\* ((0 + d[0]) + d[1]) + ... + d[len-1], rounded after every addition
RECURSIVE LeftFold(_, _)
LeftFold(d, s) == IF d = <<>> THEN s ELSE LeftFold(Tail(d), FAdd(s, Head(d)))

\* (0 + (d[0] + d[1])) + (d[2] + d[3]) + ..., then the odd last element
RECURSIVE PairFold(_, _)
PairFold(d, s) ==
    IF Len(d) >= 2 THEN PairFold(Tail(Tail(d)), FAdd(s, FAdd(d[1], d[2])))
    ELSE IF Len(d) = 1 THEN FAdd(s, d[1])
    ELSE s

\* the number of one bits, and of all bits, of the slice given by runs rs
RECURSIVE OnesTotal(_)
OnesTotal(rs) ==
    IF rs = <<>> THEN WideZero
    ELSE WideAddMul(OnesTotal(Tail(rs)), CountOnes(Head(rs).byte), Head(rs).n)

RECURSIVE BitsTotal(_)
BitsTotal(rs) ==
    IF rs = <<>> THEN WideZero
    ELSE WideAddMul(BitsTotal(Tail(rs)), U8_BITS, Head(rs).n)

----------------------------------------------------------------------------
(* Properties *)

\* C1: every access of invert_colors and calculate_mean lies inside the
\* buffer: a W-wide access at offset off has off + W <= len (W = 16 or 2 in
\* the main loop, W = 1 at index j in the remainder loop).
C1_AccessInBounds ==
    (InKernel /\ lastAcc.w > 0) =>
        /\ lastAcc.off >= 0
        /\ lastAcc.off + lastAcc.w <= len
        /\ lastAcc.region = "main" => lastAcc.w = (IF op = "invert" THEN LANES_U8 ELSE LANES_F64)
        /\ lastAcc.region = "rem" => lastAcc.w = 1

\* the last byte of a 17-byte buffer is accessed by the remainder loop
C1_Witness ==
    /\ op = "invert" /\ len = 17 /\ mainHits[15] = 1
    /\ lastAcc = [off |-> 16, w |-> 1, region |-> "rem"]

\* C2: in invert_colors and calculate_mean every index below len is
\* processed exactly once in a call, by one main-loop iteration or by one
\* remainder iteration, never by both and never by neither; no index is
\* processed twice at any moment and none at or beyond len is processed.
C2_ExactlyOnce ==
    InKernel =>
        /\ \A k \in HitDom : mainHits[k] + remHits[k] <= 1
        /\ \A k \in HitDom : k >= len => mainHits[k] + remHits[k] = 0
        /\ pc = "done" => \A k \in HitDom : k < len => mainHits[k] + remHits[k] = 1

\* a mean over 5 elements: index 3 by the main loop, index 4 by the remainder
C2_Witness ==
    /\ op = "mean" /\ pc = "done" /\ len = 5
    /\ mainHits[3] = 1 /\ remHits[3] = 0 /\ mainHits[4] = 0 /\ remHits[4] = 1

\* C3: after invert_colors(b) the buffer has the length of b and every byte
\* is 255 minus the original byte, whatever the length.
C3_InvertEachByte ==
    (op = "invert" /\ pc = "done" /\ calls = 1) =>
        /\ Len(bytes) = Len(in0)
        /\ \A k \in 1..Len(in0) : bytes[k] + in0[k] = U8_MAX

\* a 17-byte buffer: byte 16 went through the SIMD loop, byte 17 through the
\* remainder loop, and they differ from the input
C3_Witness ==
    /\ op = "invert" /\ pc = "done" /\ calls = 1 /\ Len(in0) = 17
    /\ in0[16] = 15 /\ bytes[16] = 240 /\ in0[17] = 16 /\ bytes[17] = 239

\* C4: invert_colors applied twice restores the buffer.
C4_InvertTwice ==
    (op = "invert" /\ pc = "done" /\ calls = 2) => bytes = in0

\* a 33-byte buffer after the second call
C4_Witness ==
    /\ op = "invert" /\ pc = "done" /\ calls = 2 /\ Len(in0) = 33
    /\ in0[33] = 160 /\ bytes[33] = 160

\* C5: calculate_mean returns 0.0 for an empty slice without dividing; for a
\* non-empty slice it divides, by len, a sum in which every element was
\* added exactly once: where no addition rounds, the result is the exactly
\* rounded quotient of the sum of the elements by len.  mean([x]) = x and
\* mean([1.0, 2.0, 3.0, 4.0]) = 2.5.
C5_Mean ==
    (op = "mean" /\ pc = "done") =>
        /\ len = 0 => (meanRet = 0 /\ ~divided)
        /\ len > 0 =>
            /\ divided
            /\ \A k \in 0..(len - 1) : mainHits[k] + remHits[k] = 1
            /\ meanRet = FDiv(sum, len)
            /\ ExactInput(data) => (sum = SumAll(data) /\ meanRet = FDiv(SumAll(data), len))
        /\ len = 1 => meanRet = data[1]
        /\ data = <<8, 16, 24, 32>> => meanRet = 20

\* mean([1.0, 2.0, 3.0]) = 2.0: an odd length, no addition rounds
C5_Witness ==
    /\ op = "mean" /\ pc = "done" /\ data = <<8, 16, 24>>
    /\ ExactInput(data) /\ sum = 48 /\ meanRet = 16

C8_XorInvolution ==
    /\ (op = "xor" /\ pc = "done" /\ calls = 2 /\ Len(in0) = Len(data2)) => out = in0
    /\ (op = "xor" /\ pc = "done" /\ calls = 1 /\ data1 = data2) =>
          (Len(out) = Len(data1) /\ \A k \in 1..Len(out) : out[k] = 0)

\* three bytes, a # b, after the second call
C8_Witness ==
    /\ op = "xor" /\ pc = "done" /\ calls = 2
    /\ in0 = <<213, 99, 255>> /\ data2 = <<99, 99, 99>> /\ out = in0

\* C9: count_zero_bits(b) plus the number of one bits of b is 8 * len(b),
\* for every byte buffer b.
C9_ZerosPlusOnes ==
    (op = "czb" /\ pc \in {"done", "panic"}) =>
        /\ pc = "done"
        /\ WideAdd(acc, OnesTotal(runs)) = BitsTotal(runs)

\* C9 holds of every call in which no addition overflows
C9_WithoutOverflow ==
    (op = "czb" /\ pc = "done" /\ ~ovf) =>
        WideAdd(acc, OnesTotal(runs)) = BitsTotal(runs)

\* C10: the u32 accumulator of count_zero_bits never overflows: no addition
\* wraps modulo 2^32 and none aborts the call.
C10_NoOverflow ==
    op = "czb" => (~ovf /\ pc # "panic")

\* C11: invert_colors, calculate_mean, xor_bytes and count_zero_bits are
\* total: no call reaches a panic, and a call that has not returned can
\* always take its next step.
C11_Total ==
    /\ pc # "panic"
    /\ pc # "done" => ENABLED Next

\* C11 holds of invert_colors, calculate_mean and xor_bytes, and of every
\* call of count_zero_bits in which no addition overflows
C11_WithoutOverflow ==
    (op # "czb" \/ ~ovf) => (pc # "panic" /\ (pc # "done" => ENABLED Next))

\* C14: when the main loop of invert_colors (W = 16) or calculate_mean
\* (W = 2) has exited, i = len - (len mod W); the remainder loop handles
\* exactly the len mod W elements from i on; for len < W the main loop runs
\* zero iterations.
C14_MainLen ==
    (InKernel /\ pc \in {"rem", "done"}) =>
        LET W == IF op = "invert" THEN LANES_U8 ELSE LANES_F64
        IN  /\ i = len - (len % W)
            /\ \A k \in HitDom : mainHits[k] = (IF k < i THEN 1 ELSE 0)
            /\ len < W => \A k \in HitDom : mainHits[k] = 0
            /\ len % W < W
            /\ pc = "done" =>
                  /\ Cardinality({k \in HitDom : remHits[k] > 0}) = len % W
                  /\ \A k \in HitDom : remHits[k] > 0 => (k >= i /\ k < len)

\* a 35-byte buffer: the main loop exits at i = 32, three bytes remain
C14_Witness ==
    /\ op = "invert" /\ pc = "done" /\ len = 35 /\ i = 32 /\ j = 35
    /\ remHits[32] = 1 /\ remHits[34] = 1 /\ mainHits[31] = 1

\* ascending order
Sorted(v) == \A k \in 1..(Len(v) - 1) : v[k] <= v[k + 1]

\* the number of positions of v that hold x
Occurrences(v, x) == Cardinality({k \in 1..Len(v) : v[k] = x})

\* the same values with the same multiplicities
SameValues(v, w) ==
    /\ Len(v) = Len(w)
    /\ \A k \in 1..Len(v) : Occurrences(v, v[k]) = Occurrences(w, v[k])

\* C12: merge_sort returns a vector in ascending order, for every input.
C12_MergeSorted ==
    (op = "merge_sort" /\ pc = "done") => Sorted(out)

\* C13: quick_sort terminates, within 2 * len + 1 calls of itself, and
\* returns a vector in ascending order that holds exactly the values of its
\* argument with the same multiplicities.
C13_QuickSort ==
    (op = "quick_sort" /\ pc = "done") =>
        /\ Sorted(out)
        /\ SameValues(in0, out)
        /\ quick_sort_calls(in0) <= 2 * Len(in0) + 1

\* reverse-sorted input with a duplicate
C13_Witness ==
    /\ op = "quick_sort" /\ pc = "done"
    /\ in0 = <<3, 1, 1, 0, -2>> /\ out = <<-2, 0, 1, 1, 3>>

\* C15: merge_sort returns a vector of the length of its argument that holds
\* the same values with the same multiplicities.
C15_MergePermutation ==
    (op = "merge_sort" /\ pc = "done") => SameValues(in0, out)

\* merge_sort is right on vectors of at most two elements
C12_UpToTwo ==
    (op = "merge_sort" /\ pc = "done" /\ Len(in0) <= 2) =>
        (Sorted(out) /\ SameValues(in0, out))

====
